---- MODULE Spec2Model ----
(***************************************************************************)
(* Model of app.py, the panoramic image evaluation tool (Streamlit).       *)
(*                                                                         *)
(* Every user interaction re-executes main() from the top for the session  *)
(* that made it.  A session owns st.session_state (current_index,          *)
(* image_dir, last_image_name and the keyed answer widgets) and the state  *)
(* of its un-keyed "Jump to image" selectbox.  Sessions share the image    *)
(* directories and the evaluations.csv file.                               *)
(*                                                                         *)
(* Framework behaviour the script relies on:                               *)
(*  - a widget without a key is identified by its parameters, so the       *)
(*    selectbox built with options=names, index=current_index keeps the    *)
(*    value it had in the previous run only when both are the same again;*)
(*  - a keyed widget returns st.session_state[key], registering its        *)
(*    default when the key is absent;                                      *)
(*  - st.stop() and an uncaught exception end the run and keep the state.  *)
(***************************************************************************)
EXTENDS Integers, Sequences, FiniteSets, TLC

\* ------------------------------------------------------------------ bounds
MaxKeys == 1       \* answer keys the modelled user fills in
MaxVal  == 1       \* distinct non-default values the user enters
MaxLog  == 1       \* evaluations one session submits in one behaviour
MaxConc == 2       \* evaluations submitted by concurrent sessions

\* --------------------------------------------------------------- constants
Sessions == {"s1", "s2"}

DEFAULT_IMAGE_DIR == "images"
OtherDir   == "other"
EmptyDir   == "empty"
MissingDir == "missing"
Directories == {DEFAULT_IMAGE_DIR, OtherDir, EmptyDir}
DirInputs   == Directories \cup {MissingDir}

\* Directory entries, numbered in the order Python sorts their paths.
EntryName   == <<"a.png", "b.JPG", "c.jpeg", "d.txt", "e.png">>
EntrySuffix == <<".png", ".JPG", ".jpeg", ".txt", ".png">>
EntryIsFile == <<TRUE, TRUE, TRUE, TRUE, FALSE>>
Entries      == DOMAIN EntryName
Mutable      == {1, 2, 3}       \* the entries that come and go

ANSWER_KEYS == <<"q1", "q2", "q3", "q4", "q5", "q6", "q7", "q8", "q9", "q10",
                 "q11", "q12", "q13", "q14",
                 "comp_quality", "aspects_better", "aspects_improve",
                 "strengths", "limitations", "recommendations",
                 "willing_future">>
KeySet    == {ANSWER_KEYS[i] : i \in DOMAIN ANSWER_KEYS}
InputKeys == {ANSWER_KEYS[i] : i \in 1..MaxKeys}

Absent  == "absent"     \* key not in st.session_state
Default == "default"    \* the value a widget has before the user touches it
ValueNames == <<"v1", "v2", "v3">>
UserValues == {ValueNames[i] : i \in 1..MaxVal}

None    == "None"
NoImage == [dir |-> None, name |-> None]
NoBox   == [options |-> <<>>, index |-> 0, value |-> 0]
NoRun   == [trig |-> "none", stored |-> 0, clamped |-> 0, stepped |-> 0,
            dirty |-> FALSE, reset |-> FALSE]
NoView  == [screen |-> "new", image_files |-> <<>>, image |-> NoImage]
NoPending == [record |-> None, header |-> FALSE]
HeaderRow == [kind |-> "header"]
NoFile    == [exists |-> FALSE, lines |-> <<>>]
\* a log left by an earlier deployment: the header and one evaluation
OldFile   == [exists |-> TRUE,
              lines |-> <<HeaderRow,
                          [kind |-> "row", image_filename |-> "a.png",
                           answers |-> [k \in KeySet |-> Default]]>>]

VARIABLES
    current_index,    \* st.session_state.current_index, per session
    image_dir,        \* st.session_state.image_dir
    last_image_name,  \* st.session_state.last_image_name
    answers,          \* st.session_state[k] for k in ANSWER_KEYS
    jumpbox,          \* state of the "Jump to image" selectbox
    view,             \* the page: screen, ImageSet of the last run, image file
                      \* last shown by st.image
    run,              \* locals of the last run of main()
    pc,               \* "idle", or "saving" inside save_evaluation
    pending,          \* record and header flag held inside save_evaluation
    csv,              \* evaluations.csv
    fs,               \* entries of each directory
    jin, jout         \* input and outcome of one jump (lines 113-119)

sessVars == <<current_index, image_dir, last_image_name, answers, jumpbox,
              view, run, pc, pending>>
jumpVars == <<jin, jout>>
vars == <<current_index, image_dir, last_image_name, answers, jumpbox,
          view, run, pc, pending, csv, fs, jin, jout>>

\* ----------------------------------------------------------------- helpers
Min(S) == CHOOSE x \in S : \A y \in S : x <= y

RECURSIVE SortedSeq(_)
SortedSeq(S) == IF S = {} THEN <<>>
                ELSE <<Min(S)>> \o SortedSeq(S \ {Min(S)})

Lower(suffix) == CASE suffix = ".JPG" -> ".jpg"
                   [] OTHER -> suffix

exts == {".png", ".jpg", ".jpeg"}

is_dir(d) == d \in Directories

\* the listing without the p.is_file() test
get_image_files_no_is_file(d) ==
    SortedSeq({e \in fs[d] : Lower(EntrySuffix[e]) \in exts})

\* sorted([p for p in image_dir.iterdir() if p.is_file() and suffix in exts])
get_image_files(d) ==
    SortedSeq({e \in fs[d] : EntryIsFile[e] /\ Lower(EntrySuffix[e]) \in exts})

MaxOf(a, b) == IF a >= b THEN a ELSE b
MinOf(a, b) == IF a <= b THEN a ELSE b

\* the clamp with its upper limit forgotten
Clamp_no_upper(index, size) == MaxOf(0, index)

\* max(0, min(current_index, len(image_files) - 1))
Clamp(index, size) == MaxOf(0, MinOf(index, size - 1))

\* the Prev button's body
previous(index) == IF index > 0 THEN index - 1 ELSE index

\* the Next button's body
next(index, size) == IF index < size - 1 THEN index + 1 ELSE index

NamesOf(files) == [i \in DOMAIN files |-> EntryName[files[i]]]

\* the position counted from 1
IndexOf_from_one(names, x) == Min({i \in DOMAIN names : names[i] = x})

\* list.index: the first position holding x, counted from 0
IndexOf(names, x) == Min({i \in DOMAIN names : names[i] = x}) - 1

\* the value the un-keyed selectbox returns (a position in options)
selectbox(box, names, index) ==
    IF box.options = names /\ box.index = index THEN box.value ELSE index

NameAt(names, i) == IF i + 1 \in DOMAIN names THEN names[i + 1] ELSE None

\* st.session_state.current_index = names.index(selected_name)
jumpTo(names, selected_name, index) ==
    IF \E i \in DOMAIN names : names[i] = selected_name
    THEN [index |-> IndexOf(names, selected_name), result |-> "ok"]
    ELSE [index |-> index, result |-> "ValueError"]

\* a reset that leaves the answers where they are
reset_answers_keeps(ans) == ans

\* a reset that knows the fourteen Likert keys only
reset_answers_likert_only(ans) ==
    [k \in KeySet |->
        IF k \in {ANSWER_KEYS[i] : i \in 1..14} THEN Absent ELSE ans[k]]

\* for k in ANSWER_KEYS: if k in st.session_state: del st.session_state[k]
reset_answers(ans) == [k \in KeySet |-> Absent]

\* the keyed form widgets: an absent key is registered with the default
render_form(ans) == [k \in KeySet |-> IF ans[k] = Absent THEN Default ELSE ans[k]]

image_changed(last, name) == last # name

\* the record dict built when the submit button is pressed
make_record(current_image, ans) ==
    [kind |-> "row", image_filename |-> current_image.name, answers |-> ans]

\* the write with mode="w": the file is replaced
to_csv_truncating(file, record, header) ==
    [exists |-> TRUE,
     lines |-> (IF header THEN <<HeaderRow>> ELSE <<>>) \o <<record>>]

\* df.to_csv(EVAL_CSV_PATH, mode="a", header=header, index=False)
to_csv(file, record, header) ==
    [exists |-> TRUE,
     lines |-> file.lines \o (IF header THEN <<HeaderRow>> ELSE <<>>)
                          \o <<record>>]

DataRows(lines) == SelectSeq(lines, LAMBDA r : r.kind = "row")

\* -------------------------------------------------------------------- Init
\* init_session_state() on an empty st.session_state, nothing rendered yet
Fresh ==
    /\ current_index = [s \in Sessions |-> 0]
    /\ image_dir = [s \in Sessions |-> DEFAULT_IMAGE_DIR]
    /\ last_image_name = [s \in Sessions |-> None]
    /\ answers = [s \in Sessions |-> [k \in KeySet |-> Absent]]
    /\ jumpbox = [s \in Sessions |-> NoBox]
    /\ view = [s \in Sessions |-> NoView]
    /\ run = [s \in Sessions |-> NoRun]
    /\ pc = [s \in Sessions |-> "idle"]
    /\ pending = [s \in Sessions |-> NoPending]
    /\ fs = [d \in Directories |->
               CASE d = DEFAULT_IMAGE_DIR -> {1, 2, 3, 4, 5}
                 [] d = OtherDir -> {1, 2, 4, 5}
                 [] OTHER -> {4, 5}]

NoJump ==
    /\ jin = [names |-> <<>>, name |-> None, index |-> 0]
    /\ jout = [index |-> 0, result |-> "none"]

Init == Fresh /\ NoJump /\ csv = NoFile

\* ------------------------------------------------------------------ main()
\* One execution of main() for session s, up to the submit button.  trig is
\* the widget that caused the run; img_dir_input, box and ans_in are the
\* widget states the browser sent with it.  The result is the session state
\* and the page the run leaves, and the record a pressed submit builds.
main(s, trig, img_dir_input, box, ans_in) ==
    LET image_files == IF is_dir(img_dir_input)
                       THEN get_image_files(img_dir_input) ELSE <<>>
        n        == Len(image_files)
        clamped  == Clamp(current_index[s], n)
        stepped  == IF trig = "Prev" THEN previous(clamped)
                    ELSE IF trig = "Next" THEN next(clamped, n)
                    ELSE clamped
        names    == NamesOf(image_files)
        selected == selectbox(box, names, stepped)
        jumped   == jumpTo(names, NameAt(names, selected), stepped).index
        current_image == [dir |-> img_dir_input, name |-> NameAt(names, jumped)]
        changed  == image_changed(last_image_name[s], current_image.name)
        ans1     == IF changed THEN reset_answers(ans_in) ELSE ans_in
        ans2     == render_form(ans1)
        dirty    == \E k \in KeySet : answers[s][k] \in UserValues
    IN
    IF ~is_dir(img_dir_input) \/ image_files = <<>>
    THEN \* st.error(...); st.stop()
         [current_index   |-> current_index[s],
          last_image_name |-> last_image_name[s],
          answers         |-> ans_in,
          jumpbox         |-> box,
          view            |-> [screen |-> "error", image_files |-> <<>>,
                               image |-> view[s].image],
          run             |-> [NoRun EXCEPT !.trig = trig, !.dirty = dirty,
                                            !.stored = current_index[s]],
          record          |-> None]
    ELSE [current_index   |-> jumped,
          last_image_name |-> current_image.name,
          answers         |-> ans2,
          jumpbox         |-> [options |-> names, index |-> stepped,
                               value |-> selected],
          view            |-> [screen |-> "form", image_files |-> image_files,
                               image |-> current_image],
          run             |-> [trig |-> trig, stored |-> current_index[s],
                               clamped |-> clamped, stepped |-> stepped,
                               dirty |-> dirty, reset |-> changed],
          record          |-> make_record(current_image, ans2)]

\* The run as a step of session s.  A pressed submit stops inside
\* save_evaluation, after header = not EVAL_CSV_PATH.exists().
RunScript(s, trig, img_dir_input, box, ans_in) ==
    LET r == main(s, trig, img_dir_input, box, ans_in) IN
    /\ pc[s] = "idle"
    /\ image_dir' = [image_dir EXCEPT ![s] = img_dir_input]
    /\ current_index' = [current_index EXCEPT ![s] = r.current_index]
    /\ last_image_name' = [last_image_name EXCEPT ![s] = r.last_image_name]
    /\ answers' = [answers EXCEPT ![s] = r.answers]
    /\ jumpbox' = [jumpbox EXCEPT ![s] = r.jumpbox]
    /\ view' = [view EXCEPT ![s] = r.view]
    /\ run' = [run EXCEPT ![s] = r.run]
    /\ IF trig = "Submit" /\ r.view.screen = "form"
       THEN /\ pending' = [pending EXCEPT ![s] =
                             [record |-> r.record, header |-> ~csv.exists]]
            /\ pc' = [pc EXCEPT ![s] = "saving"]
       ELSE UNCHANGED <<pc, pending>>
    /\ UNCHANGED <<csv, fs, jumpVars>>

FormShown(s) == view[s].screen \in {"form", "exception"}

\* a rerun with no widget change (first page load, manual rerun)
Rerun(s) ==
    RunScript(s, "Rerun", image_dir[s], jumpbox[s], answers[s])

SetDir(s, d) ==
    /\ view[s].screen # "new"
    /\ d # image_dir[s]
    /\ RunScript(s, "SetDir", d, jumpbox[s], answers[s])

Prev(s) ==
    /\ FormShown(s)
    /\ RunScript(s, "Prev", image_dir[s], jumpbox[s], answers[s])

Next_(s) ==
    /\ FormShown(s)
    /\ RunScript(s, "Next", image_dir[s], jumpbox[s], answers[s])

Jump(s, v) ==
    /\ FormShown(s)
    /\ v \in 0..(Len(jumpbox[s].options) - 1)
    /\ v # jumpbox[s].value
    /\ RunScript(s, "Jump", image_dir[s],
                 [jumpbox[s] EXCEPT !.value = v], answers[s])

SetAnswer(s, k, v) ==
    /\ FormShown(s)
    /\ v # answers[s][k]
    /\ RunScript(s, "SetAnswer", image_dir[s], jumpbox[s],
                 [answers[s] EXCEPT ![k] = v])

\* positions a user can pick in the selectbox
JumpTargets == 0..(Len(EntryName) - 1)

RowsInFlight == Cardinality({s \in Sessions : pc[s] = "saving"})

SubmitBegin(s) ==
    /\ FormShown(s)
    /\ RunScript(s, "Submit", image_dir[s], jumpbox[s], answers[s])

\* df.to_csv(EVAL_CSV_PATH, mode="a", header=header); then reset_answers()
SubmitWrite(s) ==
    /\ pc[s] = "saving"
    /\ csv' = to_csv(csv, pending[s].record, pending[s].header)
    /\ answers' = [answers EXCEPT ![s] = reset_answers(answers[s])]
    /\ pc' = [pc EXCEPT ![s] = "idle"]
    /\ pending' = [pending EXCEPT ![s] = NoPending]
    /\ UNCHANGED <<current_index, image_dir, last_image_name, jumpbox, view,
                   run, fs, jumpVars>>

\* a failure path that runs reset_answers() all the same (try/finally)
SubmitFail_resets(s) ==
    /\ pc[s] = "saving"
    /\ pc' = [pc EXCEPT ![s] = "idle"]
    /\ pending' = [pending EXCEPT ![s] = NoPending]
    /\ view' = [view EXCEPT ![s].screen = "exception"]
    /\ answers' = [answers EXCEPT ![s] = reset_answers(answers[s])]
    /\ UNCHANGED <<current_index, image_dir, last_image_name,
                   jumpbox, run, csv, fs, jumpVars>>

\* to_csv raises (disk full, permission denied): main() ends with the error
SubmitFail(s) ==
    /\ pc[s] = "saving"
    /\ pc' = [pc EXCEPT ![s] = "idle"]
    /\ pending' = [pending EXCEPT ![s] = NoPending]
    /\ view' = [view EXCEPT ![s].screen = "exception"]
    /\ UNCHANGED <<current_index, image_dir, last_image_name, answers,
                   jumpbox, run, csv, fs, jumpVars>>

\* somebody adds or removes an image file in the default directory
FsChange(e) ==
    /\ fs' = [fs EXCEPT ![DEFAULT_IMAGE_DIR] =
                IF e \in @ THEN @ \ {e} ELSE @ \cup {e}]
    /\ UNCHANGED <<sessVars, csv, jumpVars>>

Submitted == Len(DataRows(csv.lines)) + RowsInFlight

\* ----------------------------------------------------- navigation and answers
Next ==
    \/ Rerun("s1")
    \/ \E d \in DirInputs : SetDir("s1", d)
    \/ Prev("s1")
    \/ Next_("s1")
    \/ \E v \in JumpTargets : Jump("s1", v)
    \/ \E k \in InputKeys, v \in UserValues \cup {Default} : SetAnswer("s1", k, v)
    \/ \E e \in Mutable : FsChange(e)

Spec == Init /\ [][Next]_vars

\* ------------------------------------------------------ one session submitting
\* what the user of this specification enters: one Likert answer
SubmitKeys   == {"q1"}
SubmitValues == {Default, "v1"}

InitSubmit == Fresh /\ NoJump /\ csv \in {NoFile, OldFile}

NextSubmit ==
    \/ Rerun("s1")
    \/ \E d \in DirInputs : SetDir("s1", d)
    \/ Next_("s1")
    \/ \E k \in SubmitKeys, v \in SubmitValues : SetAnswer("s1", k, v)
    \/ Submitted < MaxLog + Len(DataRows(OldFile.lines)) /\ SubmitBegin("s1")
    \/ SubmitWrite("s1")
    \/ SubmitFail("s1")
    \/ FsChange(3)

SpecSubmit == InitSubmit /\ [][NextSubmit]_vars

\* ---------------------------------------------------- two sessions submitting
NextConc ==
    \E s \in Sessions :
        \/ Rerun(s)
        \/ Next_(s)
        \/ Submitted < MaxConc /\ SubmitBegin(s)
        \/ SubmitWrite(s)

SpecConc == Init /\ [][NextConc]_vars

\* ------------------------------------------------- the jump on its own
JumpLists == {NamesOf(SortedSeq(S)) : S \in (SUBSET {1, 2, 3}) \ {{}}}
JumpNames == {EntryName[e] : e \in Entries}

InitJump ==
    /\ Fresh
    /\ csv = NoFile
    /\ jin \in {j \in [names : JumpLists, name : JumpNames, index : JumpTargets] :
                   j.index < Len(j.names)}
    /\ jout = [index |-> jin.index, result |-> "none"]

JumpTo ==
    /\ jout.result = "none"
    /\ jout' = jumpTo(jin.names, jin.name, jin.index)
    /\ UNCHANGED <<sessVars, csv, fs, jin>>

NextJump == JumpTo

SpecJump == InitJump /\ [][NextJump]_vars

\* ------------------------------------------------------------------ claims
RunStep(s) ==
    \/ Rerun(s)
    \/ \E d \in DirInputs : SetDir(s, d)
    \/ Prev(s)
    \/ Next_(s)
    \/ \E v \in JumpTargets : Jump(s, v)
    \/ \E k \in KeySet, v \in UserValues \cup {Default} : SetAnswer(s, k, v)
    \/ SubmitBegin(s)

NavStep(s) == Prev(s) \/ Next_(s) \/ \E v \in JumpTargets : Jump(s, v)

NavTriggers == {"Prev", "Next", "Jump"}

InRange(i, files) == 0 <= i /\ i < Len(files)

\* C1: a Prev, Next or Jump run that ends on an image with another name
\* leaves every answer key at its widget default (nothing entered on the
\* previous image survives) and last_image_name at the new image's name.
C1_NavigationClearsAnswers ==
    [][\A s \in Sessions :
         (/\ NavStep(s)
          /\ view'[s].screen = "form"
          /\ view'[s].image.name # view[s].image.name)
         => /\ \A k \in KeySet : answers'[s][k] = Default
            /\ last_image_name'[s] = view'[s].image.name]_vars

\* a navigation run has just replaced an image that had answers entered
C1_Witness ==
    \E s \in Sessions :
        /\ run[s].trig \in NavTriggers
        /\ run[s].dirty
        /\ run[s].reset
        /\ view[s].screen = "form"
        /\ last_image_name[s] = "b.JPG"
        /\ \A k \in KeySet : answers[s][k] = Default

\* C3: after a run that reached the form, the index after the clamp, after
\* the Prev/Next step and after the jump all lie in 0..len(ImageSet)-1, and
\* the image shown is the entry of the ImageSet at current_index.
C3_IndexInRange ==
    \A s \in Sessions :
        view[s].screen = "form" =>
            /\ view[s].image_files # <<>>
            /\ InRange(run[s].clamped, view[s].image_files)
            /\ InRange(run[s].stepped, view[s].image_files)
            /\ InRange(current_index[s], view[s].image_files)
            /\ view[s].image.name =
                   EntryName[view[s].image_files[current_index[s] + 1]]

\* the directory shrank below the stored index and the clamp pulled it back
C3_Witness ==
    \E s \in Sessions :
        /\ view[s].screen = "form"
        /\ run[s].stored >= Len(view[s].image_files)
        /\ run[s].clamped = Len(view[s].image_files) - 1
        /\ current_index[s] = run[s].clamped

\* C4: Prev moves the clamped index down by exactly one (not at all at 0),
\* Next moves it up by exactly one (not at all at the last index), and that
\* index is the one the run ends on.
C4_PrevNextDisplayed ==
    [][\A s \in Sessions :
         /\ (Prev(s) /\ view'[s].screen = "form")
            => current_index'[s] =
                  IF run'[s].clamped > 0 THEN run'[s].clamped - 1
                  ELSE run'[s].clamped
         /\ (Next_(s) /\ view'[s].screen = "form")
            => current_index'[s] =
                  IF run'[s].clamped < Len(view'[s].image_files) - 1
                  THEN run'[s].clamped + 1 ELSE run'[s].clamped]_vars

\* C10: whenever a run puts another image file (directory and name) on the
\* screen, every answer key is back at its default.
C10_NoCarryOver ==
    [][\A s \in Sessions :
         (view'[s].screen = "form" /\ view'[s].image # view[s].image)
         => \A k \in KeySet : answers'[s][k] = Default]_vars

\* C2: the log starts with the one header row and every other row is an
\* evaluation, whatever the interleaving of the sessions' submits.
C2_HeaderOnlyFirst ==
    csv.exists =>
        /\ csv.lines # <<>>
        /\ csv.lines[1] = HeaderRow
        /\ \A i \in 2..Len(csv.lines) : csv.lines[i].kind = "row"

C6_SubmitAppendsOneRow ==
    [][\A s \in Sessions :
         (pc[s] = "saving" /\ pc'[s] = "idle" /\ csv' # csv)
         => LET old == DataRows(csv.lines)
                new == DataRows(csv'.lines)
            IN /\ Len(new) = Len(old) + 1
               /\ Len(csv'.lines) >= Len(csv.lines)
               /\ SubSeq(csv'.lines, 1, Len(csv.lines)) = csv.lines
               /\ new[Len(new)].image_filename = view[s].image.name
               /\ new[Len(new)].image_filename =
                     EntryName[view[s].image_files[current_index[s] + 1]]]_vars

\* a second evaluation was appended, for the image the run moved to
C6_Witness ==
    /\ Len(DataRows(csv.lines)) = 2
    /\ DataRows(csv.lines)[2].image_filename = "b.JPG"
    /\ DataRows(csv.lines)[2].answers["q1"] = "v1"
    /\ pc["s1"] = "idle"

SameListing(s) ==
    /\ is_dir(image_dir[s])
    /\ get_image_files(image_dir[s]) = view[s].image_files

\* C7: a submit whose write fails ends the run with every answer kept, with
\* current_index, last_image_name and the log as they were and nothing left
\* to be written; pressing submit again on the page it leaves, the directory
\* being as it was, builds a record of the same image and the same answers.
C7_FailedSubmitKeepsAnswers ==
    [][\A s \in Sessions :
         /\ (pc[s] = "saving" /\ pc'[s] = "idle" /\ csv' = csv)
            => /\ answers'[s] = answers[s]
               /\ \A k \in KeySet : answers'[s][k] # Absent
               /\ current_index'[s] = current_index[s]
               /\ last_image_name'[s] = last_image_name[s]
               /\ pending'[s] = NoPending
               /\ view'[s].screen = "exception"
         /\ (view[s].screen = "exception" /\ SameListing(s))
            => LET again == main(s, "Submit", image_dir[s], jumpbox[s],
                                 answers[s])
               IN /\ again.view.screen = "form"
                  /\ again.record.image_filename = view[s].image.name
                  /\ again.record.answers = answers[s]]_vars

\* the write failed on an evaluation with an answer entered
C7_Witness ==
    \E s \in Sessions :
        /\ view[s].screen = "exception"
        /\ pc[s] = "idle"
        /\ answers[s]["q1"] = "v1"
        /\ current_index[s] = 1

\* C8: a submit that succeeds leaves current_index, last_image_name and the
\* image on screen as they were and leaves no answer key in the session.
C8_SubmitClearsStaysOnImage ==
    [][\A s \in Sessions :
         (pc[s] = "saving" /\ pc'[s] = "idle" /\ csv' # csv)
         => /\ current_index'[s] = current_index[s]
            /\ last_image_name'[s] = last_image_name[s]
            /\ view'[s].image = view[s].image
            /\ \A k \in KeySet : answers'[s][k] = Absent]_vars

\* an evaluation of the second image with an answer entered was submitted
C8_Witness ==
    \E s \in Sessions :
        /\ csv.exists
        /\ pc[s] = "idle"
        /\ current_index[s] = 1
        /\ run[s].trig = "Submit"
        /\ run[s].dirty
        /\ view[s].screen = "form"
        /\ \A k \in KeySet : answers[s][k] = Absent

NoImageIn(d) ==
    \/ d \notin Directories
    \/ ~ \E e \in fs[d] : EntryIsFile[e] /\ Lower(EntrySuffix[e]) \in exts

\* C9: a run on a path that is no directory, or on a directory without an
\* image file, ends on the error with no ImageSet, without clamping (the
\* index keeps its value), without the answer reset, and with current_index,
\* last_image_name and the log untouched; from the error screen no submit
\* can start.
C9_BadDirectoryHalts ==
    /\ [][\A s \in Sessions :
            (RunStep(s) /\ NoImageIn(image_dir'[s]))
            => /\ view'[s].screen = "error"
               /\ view'[s].image_files = <<>>
               /\ ~run'[s].reset
               /\ current_index'[s] = current_index[s]
               /\ last_image_name'[s] = last_image_name[s]
               /\ csv' = csv
               /\ pc'[s] = "idle"]_vars
    /\ [][\A s \in Sessions :
            view[s].screen = "error"
            => pc[s] = "idle" /\ ~ENABLED SubmitBegin(s)]_vars

\* the error is shown to a session that had moved on and submitted before
C9_Witness ==
    \E s \in Sessions :
        /\ view[s].screen = "error"
        /\ image_dir[s] = EmptyDir
        /\ current_index[s] = 1
        /\ last_image_name[s] = "b.JPG"
        /\ csv.exists

====
